---- MODULE Spec2Model ----
(***************************************************************************)
(* Lead-qualification agent: the automated driver (agent_automated.py),    *)
(* the interactive driver (agent_with_email.py) and the shared tools       *)
(* (tools.py), as a state machine over the state table (data/state.csv),   *)
(* the draft files and the per-lead pipeline position.                     *)
(***************************************************************************)
EXTENDS Integers, Sequences, FiniteSets, TLC

\* ------------------------------------------------------------------ bounds
NumLeads == 2
MaxBatch == 1
MaxLoadFails == 1
MaxInvalid == 1
StubLen == 4
MaxCount == 2
MaxSends == 2
MaxRuns == 2

\* ------------------------------------------------------- program constants
max_retries == 3

Leads == 1..NumLeads
LEADS_FILE == [i \in 1..NumLeads |-> i]
Categories == {"Hot", "Warm", "Cold"}

\* ------------------------------------------------------------ model output
\* A model output is a sequence of tokens <<kind, value>>: an opening brace,
\* a closing brace, free text, or one "key": value member of a JSON object.
LB == <<"{", "">>
RB == <<"}", "">>
TXT == <<"text", "">>

FullObject(cat) ==
    << LB, <<"category", cat>>, <<"intent", "pricing">>, <<"urgency", "Immediate">>,
       <<"concerns", "[]">>, <<"next_action", "Schedule call">>,
       <<"reasoning", "clear intent">>, RB >>

ClassifyResponses ==
    { FullObject(c) : c \in Categories } \cup
    { <<TXT>> \o FullObject("Hot") \o <<TXT>>,
      <<TXT>>,
      <<LB, TXT, RB>>,
      <<RB, TXT, LB>>,
      <<LB, RB>>,
      <<LB, <<"category", "Hot">>, RB>>,
      <<LB, <<"category", "Hot">>, <<"intent", "pricing">>, <<"urgency", "Immediate">>,
        <<"concerns", "[]">>, <<"reasoning", "clear intent">>, RB>>,
      <<LB, <<"category", "Lukewarm">>, <<"intent", "pricing">>, <<"urgency", "Immediate">>,
        <<"concerns", "[]">>, <<"next_action", "Schedule call">>,
        <<"reasoning", "unsure">>, RB>>,
      <<>> }

\* the model outputs the drivers are run against
DriverResponses ==
    { FullObject(c) : c \in Categories } \cup
    { <<TXT>>,
      <<LB, <<"category", "Hot">>, RB>>,
      <<LB, <<"category", "Hot">>, <<"intent", "pricing">>, <<"urgency", "Immediate">>,
        <<"concerns", "[]">>, <<"reasoning", "clear intent">>, RB>> }

EmptyDict == [k \in {} |-> ""]
NoneText == [some |-> FALSE, text |-> <<>>]
SomeText(t) == [some |-> TRUE, text |-> t]
NoneDict == [some |-> FALSE, val |-> EmptyDict]

\* str.find / str.rfind: 0-based index of the first / last occurrence, -1 if none
find(text, tok) ==
    IF \E i \in 1..Len(text) : text[i] = tok
    THEN (CHOOSE i \in 1..Len(text) : text[i] = tok /\ \A j \in 1..(i-1) : text[j] # tok) - 1
    ELSE -1

rfind(text, tok) ==
    IF \E i \in 1..Len(text) : text[i] = tok
    THEN (CHOOSE i \in 1..Len(text) : text[i] = tok /\ \A j \in (i+1)..Len(text) : text[j] # tok) - 1
    ELSE -1

\* json.loads on a slice: an object is "{", members, "}"; a later member with
\* the same key wins; anything else raises JSONDecodeError (ok = FALSE).
json_loads(s) ==
    LET inner == 2..(Len(s) - 1)
        wellFormed == /\ Len(s) >= 2
                      /\ s[1] = LB
                      /\ s[Len(s)] = RB
                      /\ \A i \in inner : s[i] \notin {LB, RB, TXT}
        keys == { s[i][1] : i \in inner }
        last(k) == CHOOSE i \in inner : s[i][1] = k /\ \A j \in inner : s[j][1] = k => j <= i
    IN  IF wellFormed
        THEN [ok |-> TRUE, val |-> [k \in keys |-> s[last(k)][2]]]
        ELSE [ok |-> FALSE, val |-> EmptyDict]

parse_json_response(response_text) ==
    LET start == find(response_text, LB)
        end == rfind(response_text, RB) + 1
    IN  IF start # -1 /\ end > start
        THEN LET r == json_loads(SubSeq(response_text, start + 1, end))
             IN  IF r.ok THEN [some |-> TRUE, val |-> r.val] ELSE NoneDict
        ELSE NoneDict

\* ------------------------------------------------------------- call_llm
\* The provider's behaviour during one call_llm: what each successive
\* attempt meets: an exception ("error"), a response without choices
\* ("empty"), or a response with content.
Outcome(kind, text) == [kind |-> kind, text |-> text]
Failures == { Outcome("error", <<>>), Outcome("empty", <<>>) }
Contents(texts) == { Outcome("content", t) : t \in texts }
Stubs(texts) == [1..StubLen -> Failures \cup Contents(texts)]

\* k failed attempts, then content t on every later attempt
StubOf(k, t) == [i \in 1..StubLen |-> IF i <= k THEN Outcome("error", <<>>) ELSE Outcome("content", t)]

RECURSIVE call_llm_from(_, _, _)
call_llm_from(stub, attempt, retries) ==
    IF attempt >= retries
    THEN [response |-> NoneText, attempts |-> attempt, sleeps |-> <<>>]
    ELSE IF stub[attempt + 1].kind = "content"
         THEN [response |-> SomeText(stub[attempt + 1].text), attempts |-> attempt + 1, sleeps |-> <<>>]
         ELSE IF attempt = retries - 1
              THEN [response |-> NoneText, attempts |-> attempt + 1, sleeps |-> <<>>]
              ELSE LET rest == call_llm_from(stub, attempt + 1, retries)
                   IN  [rest EXCEPT !.sleeps = <<2 ^ attempt>> \o @]

\* faulty variant: the wrapper also sleeps after the final failed attempt
call_llm_sleep_last(stub) ==
    LET r == call_llm_from(stub, 0, max_retries)
    IN  IF r.response.some THEN r
        ELSE [r EXCEPT !.sleeps = @ \o <<2 ^ (max_retries - 1)>>]

\* faulty variant: one attempt too many (range(max_retries + 1))
call_llm_extra(stub) == call_llm_from(stub, 0, max_retries + 1)

call_llm(stub) == call_llm_from(stub, 0, max_retries)

\* Python truthiness of call_llm's result: neither None nor ""
Truthy(response) == response.some /\ response.text # <<>>

FallbackClassification ==
    [category |-> "Warm", intent |-> "Unknown", urgency |-> "Unknown", concerns |-> "[]",
     next_action |-> "Manual review needed", reasoning |-> "Automated classification failed"]

\* whether parse_json_response gives classify_lead an object it accepts
Parseable(text) ==
    text # <<>> /\ parse_json_response(text).some /\ DOMAIN parse_json_response(text).val # {}

\* faulty variant: an unparseable response counts as a failed attempt and is retried
RECURSIVE classify_retrying(_, _)
classify_retrying(stub, attempt) ==
    IF attempt >= max_retries
    THEN [classification |-> FallbackClassification, attempts |-> attempt, sleeps |-> <<>>,
          response |-> NoneText]
    ELSE IF stub[attempt + 1].kind = "content" /\ Parseable(stub[attempt + 1].text)
         THEN [classification |-> parse_json_response(stub[attempt + 1].text).val,
               attempts |-> attempt + 1, sleeps |-> <<>>,
               response |-> SomeText(stub[attempt + 1].text)]
         ELSE classify_retrying(stub, attempt + 1)

classify_lead_retry_parse(stub) == classify_retrying(stub, 0)

classify_lead(stub) ==
    LET call == call_llm(stub)
        parsed == IF Truthy(call.response) THEN parse_json_response(call.response.text) ELSE NoneDict
    IN  [classification |-> IF parsed.some /\ DOMAIN parsed.val # {}
                            THEN parsed.val
                            ELSE FallbackClassification,
         attempts |-> call.attempts,
         sleeps |-> call.sleeps,
         response |-> call.response]

\* ------------------------------------------------------------------ drafts
\* A text is the sequence of its lines ("\n" separates them) and a line is a
\* sequence of tokens: the literal "Subject:", a run of whitespace (WS), or
\* other text. The empty string is the text without lines.
SUBJ == "Subject:"
WS == " "
Sentinel == << <<"Error: Could not generate email">> >>
ModelDraft == << <<SUBJ, WS, "Hello">>, <<>>, <<"Dear X,">>, <<"Body text">> >>
EditedDraft == << <<"Dear X, edited">> >>
DraftResponses == { ModelDraft, <<>> }

\* get_followup_prompt reads these keys of the classification
PromptKeys == {"category", "intent", "urgency"}
\* human_review prints these keys of the classification
ReviewKeys == {"category", "intent", "urgency", "next_action", "reasoning"}

\* faulty variant: a failed call raises instead of giving the sentinel
generate_followup_raising(classification, stub) ==
    LET call == call_llm(stub)
    IN  IF ~ (PromptKeys \subseteq DOMAIN classification) \/ ~ Truthy(call.response)
        THEN [raised |-> TRUE, draft |-> <<>>, attempts |-> call.attempts, failed |-> FALSE]
        ELSE [raised |-> FALSE, draft |-> call.response.text, attempts |-> call.attempts,
              failed |-> FALSE]

generate_followup(classification, stub) ==
    IF ~ (PromptKeys \subseteq DOMAIN classification)
    THEN [raised |-> TRUE, draft |-> <<>>, attempts |-> 0, failed |-> FALSE]
    ELSE LET call == call_llm(stub)
         IN  [raised |-> FALSE,
              draft |-> IF Truthy(call.response) THEN call.response.text ELSE Sentinel,
              attempts |-> call.attempts,
              failed |-> ~ call.response.some]

\* ------------------------------------------------------ parse_email_content
DefaultSubject == <<"Follow-up on your inquiry">>

FirstNonWs(line) ==
    IF \E i \in 1..Len(line) : line[i] # WS
    THEN CHOOSE i \in 1..Len(line) : line[i] # WS /\ \A j \in 1..(i - 1) : line[j] = WS
    ELSE 0
LastNonWs(line) ==
    IF \E i \in 1..Len(line) : line[i] # WS
    THEN CHOOSE i \in 1..Len(line) : line[i] # WS /\ \A j \in (i + 1)..Len(line) : line[j] = WS
    ELSE 0
IsBlank(line) == FirstNonWs(line) = 0

\* str.strip on one line
StripLine(line) == IF IsBlank(line) THEN <<>> ELSE SubSeq(line, FirstNonWs(line), LastNonWs(line))

\* str.strip on a text: leading and trailing whitespace, newlines included
str_strip(text) ==
    LET nb == { i \in 1..Len(text) : ~ IsBlank(text[i]) }
        lo == CHOOSE i \in nb : \A j \in nb : i <= j
        hi == CHOOSE i \in nb : \A j \in nb : j <= i
    IN  IF nb = {} THEN <<>>
        ELSE IF lo = hi THEN << StripLine(text[lo]) >>
        ELSE << SubSeq(text[lo], FirstNonWs(text[lo]), Len(text[lo])) >>
             \o SubSeq(text, lo + 1, hi - 1)
             \o << SubSeq(text[hi], 1, LastNonWs(text[hi])) >>

\* str.split('\n'): the empty string gives one empty line
split(text) == IF text = <<>> THEN << <<>> >> ELSE text

startswith_subject(line) == Len(line) >= 1 /\ line[1] = SUBJ

NotSubj(tok) == tok # SUBJ
\* line.replace('Subject:', ''): every occurrence is removed
replace_subject(line) == SelectSeq(line, NotSubj)

\* the loop "for line in lines"; '\n'.join(body_lines).strip() at its end
RECURSIVE parse_lines(_, _, _, _)
parse_lines(lines, i, subject, body_lines) ==
    IF i > Len(lines)
    THEN [subject |-> subject, body |-> str_strip(body_lines)]
    ELSE IF startswith_subject(lines[i])
         THEN parse_lines(lines, i + 1, StripLine(replace_subject(lines[i])), body_lines)
         ELSE parse_lines(lines, i + 1, subject, Append(body_lines, lines[i]))

parse_email_content(draft_email) ==
    parse_lines(split(str_strip(draft_email)), 1, DefaultSubject, <<>>)

\* ------------------------------------------------------------ dispatch gate
\* faulty variant: the AUTO_SEND_EMAILS switch is not consulted
GateIgnoresSwitch(auto_send, threshold, category) ==
    \/ threshold = "Hot" /\ category = "Hot"
    \/ threshold = "Warm" /\ category \in {"Hot", "Warm"}
    \/ threshold = "Cold"

\* faulty variant: the Warm threshold sends Warm only
GateWarmOnly(auto_send, threshold, category) ==
    auto_send /\ (threshold = "Cold" \/ threshold = category)

Gate(auto_send, threshold, category) ==
    IF auto_send
    THEN IF threshold = "Hot" /\ category = "Hot" THEN TRUE
         ELSE IF threshold = "Warm" /\ category \in {"Hot", "Warm"} THEN TRUE
         ELSE IF threshold = "Cold" THEN TRUE
         ELSE FALSE
    ELSE FALSE

\* -------------------------------------------------------------- state store
Row(lead_id, status, count, now, next_action) ==
    [lead_id |-> lead_id, status |-> status, follow_up_count |-> count,
     last_contact |-> now, next_action |-> next_action]

Ids(state) == { state[i].lead_id : i \in DOMAIN state }
RowsOf(state, lead_id) == { i \in DOMAIN state : state[i].lead_id = lead_id }

\* load_state: the table in the file, or an empty table when reading fails
load_state(file, readable) == IF readable THEN file ELSE <<>>

\* faulty variant: an existing row is updated without counting the follow-up
UpsertNoCount(state, lead_id, status, next_action, now) ==
    IF lead_id \in Ids(state)
    THEN [i \in DOMAIN state |->
            IF state[i].lead_id = lead_id
            THEN [state[i] EXCEPT !.status = status, !.last_contact = now,
                                  !.next_action = next_action]
            ELSE state[i]]
    ELSE Append(state, Row(lead_id, status, 1, now, next_action))

\* update_lead_state's change of the loaded table
Upsert(state, lead_id, status, next_action, now) ==
    IF lead_id \in Ids(state)
    THEN [i \in DOMAIN state |->
            IF state[i].lead_id = lead_id
            THEN [state[i] EXCEPT !.status = status,
                                  !.follow_up_count = @ + 1,
                                  !.last_contact = now,
                                  !.next_action = next_action]
            ELSE state[i]]
    ELSE Append(state, Row(lead_id, status, 1, now, next_action))

\* ------------------------------------------------------------------- state
VARIABLES
    AUTO_SEND_EMAILS,        \* configuration, read once at import
    AUTO_APPROVE_THRESHOLD,
    EMAIL_BATCH_SIZE,
    driver,                  \* "auto" (agent_automated.py) or "interactive" (agent_with_email.py)
    mode,                    \* RUN_MODE: "manual" or "scheduled"
    pc,                      \* position of the running process; "stopped" when none runs
    emails_sent_in_session,  \* the process-wide send counter
    table,                   \* data/state.csv: the sequence of rows
    clock,                   \* datetime.now(), as the number of state writes so far
    drafts,                  \* outputs/drafts: the leads that have a draft file
    saved,                   \* the content of the draft file written for the current lead
    new_leads,               \* the leads of this run, in input order
    active_runs,             \* the calls of auto_process_leads / main in progress
    runs_started,            \* the runs started by the current process, counted up to MaxRuns
    over_retried,            \* a model call of the current run made more than max_retries attempts
    exit_code,               \* the exit status of the latest process: <<>> until it has exited
    setup,                   \* the environment the latest process was started in
    idx,                     \* position of the current lead in new_leads
    classification,          \* result["classification"] of the current lead
    draft,                   \* result["draft"], or the reviewed content
    send_email_flag,
    status,                  \* the status about to be written
    reprompts,               \* invalid answers given to the current review prompt
    \* history of the current run and process
    startIds,                \* lead_ids in the state file when the run started
    runLoadOk,               \* whether the run's load_state could read the file
    touched,                 \* leads for which a pipeline step ran in this run
    sends,                   \* the results of the send attempts for the current lead
    choice,                  \* the operator's answer in human_review for the current lead
    draftCallFailed,         \* every call attempt of generate_followup failed for the current lead
    mailed,                  \* subject and body given to send_email for the current lead
    outcome,                 \* per lead, the terminal state reached in this run
    procSends,               \* successful sends of the running process
    scenario,                \* the process started on an empty table and so far every lead
                             \* was gated to send, sent successfully and written without error
    loadFails,               \* failed reads of the state file so far
    \* direct calls of classify_lead and update_lead_state
    fnPc, fnIn, fnOut,
    upBase,                  \* per lead, its follow_up_count in the table the calls started from
    upCalls,                 \* per lead, the completed update_lead_state calls
    upSince,                 \* the same, since the table was last rebuilt from empty
    upLast,                  \* per lead, the status and next_action of its latest call
    \* two processes of agent_automated.py on the one state file
    workers,                 \* per process, its position and locals
    lostRows                 \* the rows of completed update_lead_state calls that a later
                             \* write of the other process removed from the file

\* two operating-system processes started on the same data/state.csv
Workers == {"A", "B"}

\* a process before auto_process_leads is called
IdleWorker ==
    [pc |-> "start", new_leads |-> <<>>, idx |-> 1, category |-> "", status |-> "",
     state |-> <<>>, sent |-> 0, exiting |-> FALSE,
     classified |-> {}, drafted |-> {}, sentTo |-> {}, stored |-> {}]

\* no send_email call yet for the current lead
NoMail == [subject |-> <<>>, body |-> <<>>]

cfgVars == <<AUTO_SEND_EMAILS, AUTO_APPROVE_THRESHOLD, EMAIL_BATCH_SIZE, setup>>
procVars == <<driver, mode, emails_sent_in_session, procSends>>
leadVars == <<classification, draft, saved, send_email_flag, status, reprompts, sends,
             mailed, draftCallFailed, choice>>
runVars == <<new_leads, startIds, runLoadOk>>
fnVars == <<fnPc, fnIn, fnOut>>
upVars == <<upBase, upCalls, upSince, upLast>>
conVars == <<workers, lostRows>>
vars == <<cfgVars, procVars, leadVars, runVars, fnVars, upVars, conVars, pc, table, clock, drafts,
          idx, exit_code, active_runs, runs_started, over_retried, touched, outcome, scenario, loadFails>>

NoResult == [classification |-> EmptyDict, attempts |-> 0, sleeps |-> <<>>, response |-> NoneText]
IdleStub == StubOf(0, <<>>)

\* the configurations of agent_automated.py; agent_with_email.py reads none
Config(auto_send, threshold, batch) ==
    [AUTO_SEND_EMAILS |-> auto_send, AUTO_APPROVE_THRESHOLD |-> threshold,
     EMAIL_BATCH_SIZE |-> batch]
Configs == { Config(a, t, b) : a \in BOOLEAN, t \in Categories, b \in 1..MaxBatch }
NoConfig == Config(FALSE, "Hot", 1)

\* the environment at process start: GROQ_API_KEY set, data/leads.csv present
Setup(api_key, leads_file) == [api_key |-> api_key, leads_file |-> leads_file]
SetupOk == Setup(TRUE, TRUE)

ConfigInit ==
    /\ AUTO_SEND_EMAILS = NoConfig.AUTO_SEND_EMAILS
    /\ AUTO_APPROVE_THRESHOLD = NoConfig.AUTO_APPROVE_THRESHOLD
    /\ EMAIL_BATCH_SIZE = NoConfig.EMAIL_BATCH_SIZE

StoppedInit ==
    /\ driver = "auto"
    /\ mode = "manual"
    /\ pc = "stopped"
    /\ emails_sent_in_session = 0
    /\ clock = 0
    /\ drafts = {}
    /\ saved = <<>>
    /\ new_leads = <<>>
    /\ idx = 1
    /\ exit_code = <<>>
    /\ active_runs = 0
    /\ runs_started = 0
    /\ over_retried = FALSE
    /\ setup = SetupOk
    /\ classification = EmptyDict
    /\ draft = <<>>
    /\ send_email_flag = FALSE
    /\ status = ""
    /\ reprompts = 0
    /\ startIds = {}
    /\ runLoadOk = TRUE
    /\ touched = {}
    /\ sends = <<>>
    /\ mailed = NoMail
    /\ draftCallFailed = FALSE
    /\ choice = ""
    /\ outcome = [l \in Leads |-> "none"]
    /\ procSends = 0
    /\ scenario = FALSE
    /\ loadFails = 0
    /\ workers = [p \in Workers |-> IdleWorker]
    /\ lostRows = {}

Zero == [l \in Leads |-> 0]
NoCall == [status |-> "", next_action |-> ""]

UpIdle ==
    /\ upBase = Zero
    /\ upCalls = Zero
    /\ upSince = Zero
    /\ upLast = [l \in Leads |-> NoCall]

FnIdle == fnPc = "idle" /\ fnIn = IdleStub /\ fnOut = NoResult

Init ==
    /\ ConfigInit
    /\ StoppedInit
    /\ table = <<>>
    /\ FnIdle
    /\ UpIdle

\* ----------------------------------------------------------------- drivers
cur == new_leads[idx]

\* never written by a driver
fixedVars == <<fnVars, upVars, conVars>>

\* where the process goes when auto_process_leads / main returns
EndPc == IF driver = "auto" /\ mode = "scheduled" THEN "run_start" ELSE "stopped"

\* the locals of one loop iteration, dropped when it ends
ResetLead ==
    /\ classification' = EmptyDict
    /\ draft' = <<>>
    /\ saved' = <<>>
    /\ send_email_flag' = FALSE
    /\ status' = ""
    /\ reprompts' = 0
    /\ sends' = <<>>
    /\ mailed' = NoMail
    /\ draftCallFailed' = FALSE
    /\ choice' = ""

\* next iteration of "for idx, lead in new_leads.iterrows()"
Advance ==
    /\ idx' = idx + 1
    /\ active_runs' = IF idx + 1 > Len(new_leads) THEN active_runs - 1 ELSE active_runs
    /\ UNCHANGED <<runs_started, over_retried>>
    /\ exit_code' = IF idx + 1 > Len(new_leads) /\ EndPc = "stopped" THEN <<0>> ELSE exit_code
    /\ pc' = IF idx + 1 > Len(new_leads) THEN EndPc ELSE "classify"
    /\ ResetLead

\* faulty variant: an error in one lead ends the batch
CaughtAborts ==
    /\ outcome' = [outcome EXCEPT ![cur] = "Errored"]
    /\ scenario' = FALSE
    /\ idx' = idx
    /\ active_runs' = active_runs - 1
    /\ UNCHANGED <<runs_started, over_retried>>
    /\ exit_code' = IF EndPc = "stopped" THEN <<0>> ELSE exit_code
    /\ pc' = EndPc
    /\ ResetLead

\* "except Exception as e": the error is logged and the loop goes on
Caught ==
    /\ outcome' = [outcome EXCEPT ![cur] = "Errored"]
    /\ scenario' = FALSE
    /\ Advance

\* faulty variant: the new leads taken in reverse input order
NewLeadsReversed(state) ==
    LET processed_ids == Ids(state)
        isNew(l) == l \notin processed_ids
        new == SelectSeq(LEADS_FILE, isNew)
    IN  [i \in 1..Len(new) |-> new[Len(new) + 1 - i]]

\* faulty variant: the "already processed" filter dropped
NewLeadsUnfiltered(state) == LEADS_FILE

\* new_leads = leads[~leads["lead_id"].isin(processed_ids)]
NewLeads(state) ==
    LET processed_ids == Ids(state)
        isNew(l) == l \notin processed_ids
    IN  SelectSeq(LEADS_FILE, isNew)

\* faulty variant: the limit test written with > instead of >=
LimitReachedLate(sent, batch) == sent > batch

\* if emails_sent_in_session >= EMAIL_BATCH_SIZE
LimitReached(sent, batch) == sent >= batch

\* faulty variant: a failed send recorded as sent
StatusAlwaysSent(email_sent) == "approved_sent"

\* status = "approved_sent" if email_sent else "approved"
StatusAfterSend(email_sent) == IF email_sent THEN "approved_sent" ELSE "approved"

\* python agent_automated.py / python agent_with_email.py
StartProcess(d, m, cfg) ==
    /\ pc = "stopped"
    /\ AUTO_SEND_EMAILS' = cfg.AUTO_SEND_EMAILS
    /\ AUTO_APPROVE_THRESHOLD' = cfg.AUTO_APPROVE_THRESHOLD
    /\ EMAIL_BATCH_SIZE' = cfg.EMAIL_BATCH_SIZE
    /\ setup' = SetupOk
    /\ exit_code' = <<>>
    /\ active_runs' = 0
    /\ runs_started' = 0
    /\ over_retried' = FALSE
    /\ driver' = d
    /\ mode' = m
    /\ emails_sent_in_session' = 0
    /\ procSends' = 0
    /\ scenario' = (d = "auto" /\ table = <<>>)
    /\ pc' = "run_start"
    /\ UNCHANGED <<fixedVars, leadVars, runVars, table, clock, drafts, idx, touched, outcome,
                   loadFails>>

\* faulty variant: a failed setup ends the process with status 0
SetupExitCodeZero(d, api_key, leads_file) == 0

\* the exit status of a process whose setup is incomplete: the module raises
\* RuntimeError without GROQ_API_KEY (status 1); without data/leads.csv
\* validate_setup fails in agent_with_email.py (sys.exit(1)) and
\* auto_process_leads returns at "No leads found" (status 0)
SetupExitCode(d, api_key, leads_file) ==
    IF ~ api_key THEN 1
    ELSE IF d = "interactive" THEN 1
    ELSE 0

\* a process started in manual mode without the API key or the leads file
FailedStart(d, api_key, leads_file) ==
    /\ pc = "stopped"
    /\ ~ (api_key /\ leads_file)
    /\ driver' = d
    /\ mode' = "manual"
    /\ setup' = Setup(api_key, leads_file)
    /\ active_runs' = 0
    /\ runs_started' = 0
    /\ over_retried' = FALSE
    /\ exit_code' = << SetupExitCode(d, api_key, leads_file) >>
    /\ pc' = "stopped"
    /\ emails_sent_in_session' = 0
    /\ procSends' = 0
    /\ scenario' = FALSE
    /\ UNCHANGED <<fixedVars, AUTO_SEND_EMAILS, AUTO_APPROVE_THRESHOLD, EMAIL_BATCH_SIZE,
                   leadVars, runVars, table, clock, drafts, idx, touched, outcome, loadFails>>

\* faulty variant: the scheduler starts a run while one is in progress
RunMayStartAnytime == pc # "stopped"

\* auto_process_leads is called from the entry point and from
\* schedule.run_pending, both on the one thread of the process: only when the
\* previous call has returned
RunMayStart == pc = "run_start"

\* auto_process_leads / main up to the batch loop
StartRun(readable) ==
    /\ RunMayStart
    /\ readable \/ loadFails < MaxLoadFails
    /\ LET new == NewLeads(load_state(table, readable))
       IN  /\ new_leads' = new
           /\ pc' = IF new = <<>> THEN EndPc ELSE "classify"
    /\ idx' = 1
    /\ active_runs' = IF NewLeads(load_state(table, readable)) = <<>>
                      THEN active_runs ELSE active_runs + 1
    /\ runs_started' = IF runs_started < MaxRuns THEN runs_started + 1 ELSE runs_started
    /\ over_retried' = FALSE
    /\ exit_code' = IF NewLeads(load_state(table, readable)) = <<>> /\ EndPc = "stopped"
                    THEN <<0>> ELSE exit_code
    /\ startIds' = Ids(table)
    /\ runLoadOk' = readable
    /\ loadFails' = IF readable THEN loadFails ELSE loadFails + 1
    /\ scenario' = (scenario /\ readable)
    /\ touched' = {}
    /\ outcome' = [l \in Leads |-> "none"]
    /\ UNCHANGED <<fixedVars, cfgVars, procVars, leadVars, table, clock, drafts>>

\* agent.process_lead: classify_lead
Classify(stub) ==
    /\ pc = "classify"
    /\ classification' = classify_lead(stub).classification
    /\ over_retried' = (over_retried \/ classify_lead(stub).attempts > max_retries)
    /\ touched' = touched \cup {cur}
    /\ pc' = "draft"
    /\ UNCHANGED <<fixedVars, cfgVars, procVars, runVars, draft, saved, send_email_flag, status,
                   reprompts, sends, mailed, draftCallFailed, choice, table, clock, drafts, idx, exit_code, active_runs, runs_started, outcome, scenario, loadFails>>

\* agent.process_lead: generate_followup
Draft(stub) ==
    /\ pc = "draft"
    /\ LET g == generate_followup(classification, stub)
       IN  IF g.raised
           THEN /\ Caught
           ELSE /\ draft' = g.draft
                /\ draftCallFailed' = g.failed
                /\ over_retried' = (over_retried \/ g.attempts > max_retries)
                /\ pc' = IF driver = "auto" THEN "save" ELSE "review"
                /\ UNCHANGED <<classification, saved, send_email_flag, status, reprompts, sends, mailed, choice,
                               idx, exit_code, active_runs, runs_started, outcome, scenario>>
    /\ UNCHANGED <<fixedVars, cfgVars, procVars, runVars, table, clock, drafts, touched, loadFails>>

\* human_review: one answer to the prompt (interactive driver)
Answers == {"A", "S", "EY", "EN", "R", "SKIP", "invalid"}

\* faulty variant: plain approval sends too
SendChoiceAlsoA(answer) == answer \in {"A", "S", "EY"}

\* the send flag human_review returns: S, or E answered with Y
SendChoice(answer) == answer \in {"S", "EY"}

human_review(answer) ==
    /\ pc = "review"
    /\ IF ~ (ReviewKeys \subseteq DOMAIN classification)
       THEN /\ answer = "A"
            /\ Caught
       ELSE CASE answer \in {"A", "S", "EY", "EN"} ->
                   /\ draft' = IF answer \in {"EY", "EN"} THEN EditedDraft ELSE draft
                   /\ send_email_flag' = SendChoice(answer)
                   /\ choice' = answer
                   /\ pc' = "save"
                   /\ reprompts' = 0
                   /\ UNCHANGED <<classification, saved, status, sends, mailed, draftCallFailed, idx, exit_code, active_runs, runs_started, over_retried, outcome, scenario>>
              [] answer = "R" ->
                   /\ status' = "rejected"
                   /\ choice' = answer
                   /\ pc' = "write"
                   /\ reprompts' = 0
                   /\ UNCHANGED <<classification, draft, saved, send_email_flag, sends, mailed, draftCallFailed, idx, exit_code, active_runs, runs_started, over_retried,
                                  outcome, scenario>>
              [] answer = "SKIP" ->
                   /\ outcome' = [outcome EXCEPT ![cur] = "Skipped"]
                   /\ Advance
                   /\ UNCHANGED scenario
              [] answer = "invalid" ->
                   /\ reprompts < MaxInvalid
                   /\ reprompts' = reprompts + 1
                   /\ UNCHANGED <<classification, draft, saved, send_email_flag, status, sends, mailed, draftCallFailed, choice,
                                  pc, idx, exit_code, active_runs, runs_started, over_retried, outcome, scenario>>
    /\ UNCHANGED <<fixedVars, cfgVars, procVars, runVars, table, clock, drafts, touched, loadFails>>

\* save_draft; writable = FALSE when opening or writing the file raises
SaveDraft(writable) ==
    /\ pc = "save"
    /\ IF writable
       THEN /\ drafts' = drafts \cup {cur}
            /\ saved' = draft
            /\ pc' = IF driver = "auto" THEN "gate"
                     ELSE IF send_email_flag THEN "send" ELSE "write"
            /\ status' = IF driver = "auto" \/ send_email_flag THEN status ELSE "approved"
            /\ UNCHANGED <<classification, draft, send_email_flag, reprompts, sends, mailed, draftCallFailed, choice, idx, exit_code, active_runs, runs_started, over_retried,
                           outcome, scenario>>
       ELSE /\ Caught
            /\ UNCHANGED drafts
    /\ UNCHANGED <<fixedVars, cfgVars, procVars, runVars, table, clock, touched, loadFails>>

\* the auto-send logic of auto_process_leads
AutoSendLogic ==
    /\ pc = "gate"
    /\ LET flag == Gate(AUTO_SEND_EMAILS, AUTO_APPROVE_THRESHOLD, classification["category"])
       IN  /\ send_email_flag' = flag
           /\ pc' = IF flag THEN "send" ELSE "write"
           /\ status' = IF flag THEN status ELSE "approved"
           /\ scenario' = (scenario /\ flag)
    /\ UNCHANGED <<fixedVars, cfgVars, procVars, runVars, classification, draft, saved, reprompts, sends, mailed, draftCallFailed, choice,
                   table, clock, drafts, idx, exit_code, active_runs, runs_started, over_retried, touched, outcome, loadFails>>

\* send_email and what the driver does with its result
Send(email_sent) ==
    /\ pc = "send"
    /\ email_sent => procSends < MaxSends
    /\ mailed' = parse_email_content(draft)
    /\ sends' = Append(sends, email_sent)
    /\ procSends' = IF email_sent THEN procSends + 1 ELSE procSends
    /\ emails_sent_in_session' =
          IF driver = "auto" /\ email_sent THEN emails_sent_in_session + 1
          ELSE emails_sent_in_session
    /\ IF driver = "auto" /\ email_sent
          /\ LimitReached(emails_sent_in_session + 1, EMAIL_BATCH_SIZE)
       THEN /\ pc' = "ceiling"
            /\ status' = status
       ELSE /\ pc' = "write"
            /\ status' = StatusAfterSend(email_sent)
    /\ scenario' = (scenario /\ email_sent)
    /\ UNCHANGED <<fixedVars, cfgVars, driver, mode, runVars, classification, draft, saved,
                   draftCallFailed, choice, send_email_flag, reprompts, table, clock, drafts, idx, exit_code, active_runs, runs_started, over_retried, touched, outcome,
                   loadFails>>

Terminal(st) == CASE st = "approved_sent" -> "Sent"
                  [] st = "approved" -> "Saved"
                  [] st = "rejected" -> "Rejected"

\* faulty variant: every row is written as approved_sent
update_lead_state_sent(lead_id, st, next_action, readable) ==
    Upsert(load_state(table, readable), lead_id, "approved_sent", next_action, clock + 1)

\* update_lead_state as the drivers call it: the file after the call, given
\* whether load_state could read it
update_lead_state(lead_id, st, next_action, readable) ==
    Upsert(load_state(table, readable), lead_id, st, next_action, clock + 1)

\* update_lead_state(lead_id, status, next_action) at the end of a lead;
\* writable = FALSE when to_csv raises
Write(readable, writable) ==
    /\ pc = "write"
    /\ readable \/ loadFails < MaxLoadFails
    /\ IF status # "rejected" /\ "next_action" \notin DOMAIN classification
       THEN /\ readable /\ writable
            /\ Caught
            /\ UNCHANGED <<table, clock, loadFails>>
       ELSE /\ loadFails' = IF readable THEN loadFails ELSE loadFails + 1
            /\ IF writable
               THEN /\ table' = update_lead_state(cur, status,
                                    IF status = "rejected" THEN "no_action"
                                    ELSE classification["next_action"], readable)
                    /\ clock' = clock + 1
                    /\ outcome' = [outcome EXCEPT ![cur] = Terminal(status)]
                    /\ scenario' = (scenario /\ readable)
                    /\ Advance
               ELSE /\ Caught
                    /\ UNCHANGED <<table, clock>>
    /\ UNCHANGED <<fixedVars, cfgVars, procVars, runVars, drafts, touched>>

\* the batch limit: update_lead_state(..., "approved_sent", ...) then sys.exit(0)
BatchLimit(readable, writable) ==
    /\ pc = "ceiling"
    /\ readable \/ loadFails < MaxLoadFails
    /\ IF "next_action" \notin DOMAIN classification
       THEN /\ readable /\ writable
            /\ Caught
            /\ UNCHANGED <<table, clock, loadFails>>
       ELSE /\ loadFails' = IF readable THEN loadFails ELSE loadFails + 1
            /\ IF writable
               THEN /\ table' = update_lead_state(cur, "approved_sent",
                                    classification["next_action"], readable)
                    /\ clock' = clock + 1
                    /\ outcome' = [outcome EXCEPT ![cur] = "Sent"]
                    /\ scenario' = (scenario /\ readable)
                    /\ pc' = "stopped"
                    /\ ResetLead
                    /\ exit_code' = <<0>>
                    /\ active_runs' = 0
                    /\ UNCHANGED <<runs_started, over_retried>>
                    /\ UNCHANGED idx
               ELSE /\ Caught
                    /\ UNCHANGED <<table, clock>>
    /\ UNCHANGED <<fixedVars, cfgVars, procVars, runVars, drafts, touched>>

Next ==
    \/ \E m \in {"manual", "scheduled"}, cfg \in Configs : StartProcess("auto", m, cfg)
    \/ StartProcess("interactive", "manual", NoConfig)
    \/ \E d \in {"auto", "interactive"}, api_key, leads_file \in BOOLEAN :
          FailedStart(d, api_key, leads_file)
    \/ \E readable \in BOOLEAN : StartRun(readable)
    \/ \E k \in 0..max_retries, t \in DriverResponses : Classify(StubOf(k, t))
    \/ \E k \in 0..max_retries, t \in DraftResponses : Draft(StubOf(k, t))
    \/ \E answer \in Answers : human_review(answer)
    \/ \E writable \in BOOLEAN : SaveDraft(writable)
    \/ AutoSendLogic
    \/ \E email_sent \in BOOLEAN : Send(email_sent)
    \/ \E readable, writable \in BOOLEAN : Write(readable, writable)
    \/ \E readable, writable \in BOOLEAN : BatchLimit(readable, writable)

Spec == Init /\ [][Next]_vars

\* ------------------------------------------- the automated driver, fairly
\* python agent_automated.py started once on a fresh state file
FirstStart(m, cfg) ==
    /\ table = <<>>
    /\ exit_code = <<>>
    /\ StartProcess("auto", m, cfg)

\* the steps of one batch run of the automated driver: each is a synchronous
\* call that returns, so a run that can take a step eventually takes one
AutoStep ==
    \/ \E k \in 0..max_retries, t \in DriverResponses : Classify(StubOf(k, t))
    \/ \E k \in 0..max_retries, t \in DraftResponses : Draft(StubOf(k, t))
    \/ \E writable \in BOOLEAN : SaveDraft(writable)
    \/ AutoSendLogic
    \/ \E email_sent \in BOOLEAN : Send(email_sent)
    \/ \E readable, writable \in BOOLEAN : Write(readable, writable)
    \/ \E readable, writable \in BOOLEAN : BatchLimit(readable, writable)

AutoNext ==
    \/ \E m \in {"manual", "scheduled"}, cfg \in Configs : FirstStart(m, cfg)
    \/ \E readable \in BOOLEAN : StartRun(readable)
    \/ AutoStep

\* the run leaves the step it is at: every step of AutoStep moves pc or idx
RunAdvances ==
    /\ pc \in {"classify", "draft", "save", "gate", "send", "write", "ceiling"}
    /\ pc' \in {"classify", "draft", "save", "gate", "send", "write", "ceiling",
                "run_start", "stopped"}
    /\ idx' \in 1..(NumLeads + 1)
    /\ <<pc', idx'>> # <<pc, idx>>

\* the model call, save_draft, send_email and update_lead_state are blocking
\* calls on the one thread of the process and each returns or raises: a run
\* that is at a step eventually leaves it
FairSpec == Init /\ [][AutoNext]_vars /\ WF_<<pc, idx>>(RunAdvances)

\* ------------------------------------------------- classify_lead, directly
\* classify_lead called once against every provider behaviour of StubLen attempts
ClassifyInit ==
    /\ ConfigInit
    /\ StoppedInit
    /\ table = <<>>
    /\ UpIdle
    /\ fnPc = "ready"
    /\ fnIn \in Stubs(ClassifyResponses)
    /\ fnOut = NoResult

ClassifyCall ==
    /\ fnPc = "ready"
    /\ fnOut' = classify_lead(fnIn)
    /\ fnPc' = "done"
    /\ UNCHANGED <<cfgVars, procVars, leadVars, runVars, upVars, conVars, fnIn, pc, table, clock, drafts,
                   idx, exit_code, active_runs, runs_started, over_retried, touched, outcome, scenario, loadFails>>

SpecClassify == ClassifyInit /\ [][ClassifyCall]_vars

\* --------------------------------------------- update_lead_state, directly
Statuses == {"approved", "approved_sent", "rejected"}
NextActions == {"Schedule call", "no_action"}
MaxCalls == 3

\* the tables with at most one row per lead_id and counts up to MaxCount
StartRows(l) == { Row(l, st, n, 0, na) : st \in Statuses, n \in 1..MaxCount, na \in NextActions }
RECURSIVE TablesOver(_)
TablesOver(ids) ==
    IF ids = {} THEN { <<>> }
    ELSE UNION { { <<r>> \o t : r \in StartRows(l), t \in TablesOver(ids \ {l}) } : l \in ids }
StartTables == UNION { TablesOver(ids) : ids \in SUBSET Leads }

CountIn(state, l) == IF l \in Ids(state) THEN state[CHOOSE i \in RowsOf(state, l) : TRUE].follow_up_count ELSE 0

UpsertInit ==
    /\ ConfigInit
    /\ StoppedInit
    /\ FnIdle
    /\ table \in StartTables
    /\ upBase = [l \in Leads |-> CountIn(table, l)]
    /\ upCalls = Zero
    /\ upSince = Zero
    /\ upLast = [l \in Leads |-> NoCall]

\* one call update_lead_state(l, st, na); readable: load_state could read the
\* file; writable: to_csv did not raise
UpsertCall(l, st, na, readable, writable) ==
    /\ clock < MaxCalls
    /\ readable \/ loadFails < MaxLoadFails
    /\ IF writable
       THEN /\ table' = update_lead_state(l, st, na, readable)
            /\ clock' = clock + 1
            /\ loadFails' = IF readable THEN loadFails ELSE loadFails + 1
            /\ upCalls' = [upCalls EXCEPT ![l] = @ + 1]
            /\ upLast' = [upLast EXCEPT ![l] = [status |-> st, next_action |-> na]]
            /\ upSince' = IF readable THEN [upSince EXCEPT ![l] = @ + 1]
                          ELSE [k \in Leads |-> IF k = l THEN 1 ELSE 0]
            /\ upBase' = IF readable THEN upBase ELSE Zero
       ELSE UNCHANGED <<table, clock, loadFails, upVars>>
    /\ UNCHANGED <<cfgVars, procVars, leadVars, runVars, fnVars, conVars, pc, drafts, idx, exit_code, active_runs, runs_started, over_retried, touched,
                   outcome, scenario>>

UpsertNext ==
    \E l \in Leads, st \in Statuses, na \in NextActions, readable, writable \in BOOLEAN :
        UpsertCall(l, st, na, readable, writable)

SpecUpsert == UpsertInit /\ [][UpsertNext]_vars

\* ------------------------------------------- parse_email_content, directly
MaxLines == 2
MaxLineLen == 2

Tokens == {SUBJ, WS, "w"}
LinesUpTo == UNION { [1..n -> Tokens] : n \in 0..MaxLineLen }
\* the empty string is <<>>, never one empty line
TextsUpTo == (UNION { [1..n -> LinesUpTo] : n \in 0..MaxLines }) \ { << <<>> >> }
\* longer drafts: the drivers' drafts, a Subject line between body lines, blank
\* lines around the Subject line and the body
SampleDrafts ==
    { ModelDraft, Sentinel, EditedDraft,
      << <<"w">>, <<SUBJ, WS, "w">>, <<"w">> >>,
      << <<>>, <<SUBJ, "w">>, <<>>, <<"w">>, <<WS>> >>,
      << <<SUBJ, "w">>, <<"w">>, <<SUBJ, WS, "w", SUBJ>> >> }
ParseInputs == TextsUpTo \cup SampleDrafts

ParseInit ==
    /\ ConfigInit
    /\ StoppedInit
    /\ table = <<>>
    /\ UpIdle
    /\ fnPc = "ready"
    /\ fnIn \in ParseInputs
    /\ fnOut = NoMail

ParseCall ==
    /\ fnPc = "ready"
    /\ fnOut' = parse_email_content(fnIn)
    /\ fnPc' = "parsed"
    /\ UNCHANGED <<cfgVars, procVars, leadVars, runVars, upVars, conVars, fnIn, pc, table, clock, drafts,
                   idx, exit_code, active_runs, runs_started, over_retried, touched, outcome, scenario, loadFails>>

SpecParse == ParseInit /\ [][ParseCall]_vars

\* ------------------------------------- two processes on one state file
\* Both processes run agent_automated.py once, under the same configuration;
\* the model calls answer, and the file can be read and written throughout.
\* update_lead_state is two steps, the read of the file and its rewrite: the
\* other process may act in between.
ConInit ==
    /\ \E cfg \in Configs :
          /\ AUTO_SEND_EMAILS = cfg.AUTO_SEND_EMAILS
          /\ AUTO_APPROVE_THRESHOLD = cfg.AUTO_APPROVE_THRESHOLD
          /\ EMAIL_BATCH_SIZE = cfg.EMAIL_BATCH_SIZE
    /\ StoppedInit
    /\ table = <<>>
    /\ FnIdle
    /\ UpIdle

CurLead(w) == w.new_leads[w.idx]

\* the end of one loop iteration
ConAdvance(w) ==
    IF w.idx + 1 > Len(w.new_leads)
    THEN [w EXCEPT !.pc = "done"]
    ELSE [w EXCEPT !.pc = "classify", !.idx = w.idx + 1]

\* faulty variant: the rewrite starts from the file as it is at the write
LoadedUnderLock(w, file) == file

\* state = load_state() at the head of update_lead_state: the table that the
\* rest of the call changes and writes back
Loaded(w, file) == w.state

\* auto_process_leads up to the batch loop
ConStart(p) ==
    LET w == workers[p]
        new == NewLeads(load_state(table, TRUE))
    IN  /\ w.pc = "start"
        /\ workers' = [workers EXCEPT ![p] =
                          [w EXCEPT !.new_leads = new, !.idx = 1,
                                    !.pc = IF new = <<>> THEN "done" ELSE "classify"]]
        /\ UNCHANGED <<table, clock, lostRows>>

\* classify_lead, the model answering with a category
ConClassify(p, category) ==
    LET w == workers[p]
    IN  /\ w.pc = "classify"
        /\ workers' = [workers EXCEPT ![p] =
                          [w EXCEPT !.pc = "draft", !.category = category,
                                    !.classified = @ \cup {CurLead(w)}]]
        /\ UNCHANGED <<table, clock, lostRows>>

\* generate_followup, save_draft and the auto-send gate
ConDraft(p) ==
    LET w == workers[p]
        should_send == Gate(AUTO_SEND_EMAILS, AUTO_APPROVE_THRESHOLD, w.category)
    IN  /\ w.pc = "draft"
        /\ workers' = [workers EXCEPT ![p] =
                          [w EXCEPT !.pc = IF should_send THEN "send" ELSE "write",
                                    !.status = IF should_send THEN w.status ELSE "approved",
                                    !.drafted = @ \cup {CurLead(w)}]]
        /\ UNCHANGED <<table, clock, lostRows>>

\* send_email, the session counter and the batch limit
ConSend(p, email_sent) ==
    LET w == workers[p]
        limit == email_sent /\ LimitReached(w.sent + 1, EMAIL_BATCH_SIZE)
    IN  /\ w.pc = "send"
        /\ workers' = [workers EXCEPT ![p] =
                          [w EXCEPT !.pc = "write",
                                    !.sent = IF email_sent THEN w.sent + 1 ELSE w.sent,
                                    !.sentTo = IF email_sent THEN @ \cup {CurLead(w)} ELSE @,
                                    !.exiting = limit,
                                    !.status = IF limit THEN "approved_sent"
                                               ELSE StatusAfterSend(email_sent)]]
        /\ UNCHANGED <<table, clock, lostRows>>

\* update_lead_state: state = load_state()
ConLoad(p) ==
    LET w == workers[p]
    IN  /\ w.pc = "write"
        /\ workers' = [workers EXCEPT ![p] =
                          [w EXCEPT !.pc = "store", !.state = load_state(table, TRUE)]]
        /\ UNCHANGED <<table, clock, lostRows>>

\* update_lead_state: the change of the loaded table and state.to_csv; then
\* sys.exit(0) at the batch limit, the next lead otherwise
ConStore(p) ==
    LET w == workers[p]
        done == [w EXCEPT !.stored = @ \cup {CurLead(w)}]
        others == UNION { workers[q].stored : q \in Workers \ {p} }
    IN  /\ w.pc = "store"
        /\ table' = Upsert(Loaded(w, table), CurLead(w), w.status, "Schedule call", clock + 1)
        /\ clock' = clock + 1
        /\ workers' = [workers EXCEPT ![p] =
                          IF w.exiting THEN [done EXCEPT !.pc = "done"]
                          ELSE ConAdvance(done)]
        /\ lostRows' = lostRows \cup
                          { m \in others \ {CurLead(w)} : m \notin Ids(table') }

ConNext ==
    /\ \E p \in Workers :
          \/ ConStart(p)
          \/ \E category \in Categories : ConClassify(p, category)
          \/ ConDraft(p)
          \/ \E email_sent \in BOOLEAN : ConSend(p, email_sent)
          \/ ConLoad(p)
          \/ ConStore(p)
    /\ UNCHANGED <<cfgVars, procVars, leadVars, runVars, fnVars, upVars, pc, drafts,
                   idx, exit_code, active_runs, runs_started, over_retried, touched, outcome, scenario,
                   loadFails>>

SpecConcurrent == ConInit /\ [][ConNext]_vars

\* ------------------------------- one process at a time on the state file
\* The same two processes, the second started only when the first has
\* returned, exited or been killed; a process can be killed at any step.
ConKill(p) ==
    LET w == workers[p]
    IN  /\ w.pc \notin {"start", "done"}
        /\ workers' = [workers EXCEPT ![p] = [w EXCEPT !.pc = "done"]]
        /\ UNCHANGED <<table, clock, lostRows>>

\* no other process is running
SoleOwner(p) == \A q \in Workers \ {p} : workers[q].pc \in {"start", "done"}

HandoverNext ==
    /\ \E p \in Workers :
          /\ SoleOwner(p)
          /\ \/ ConStart(p)
             \/ \E category \in Categories : ConClassify(p, category)
             \/ ConDraft(p)
             \/ \E email_sent \in BOOLEAN : ConSend(p, email_sent)
             \/ ConLoad(p)
             \/ ConStore(p)
             \/ ConKill(p)
    /\ UNCHANGED <<cfgVars, procVars, leadVars, runVars, fnVars, upVars, pc, drafts,
                   idx, exit_code, active_runs, runs_started, over_retried, touched, outcome, scenario,
                   loadFails>>

SpecHandover == ConInit /\ [][HandoverNext]_vars

\* -------------------------------------------------------------- properties
Range(seq) == { seq[i] : i \in DOMAIN seq }
LeadSteps == {"classify", "draft", "review", "save", "gate", "send", "write", "ceiling"}
RowOf(l) == table[CHOOSE i \in RowsOf(table, l) : TRUE]

C3_SendCeiling ==
    driver = "auto" =>
        /\ emails_sent_in_session = procSends
        /\ procSends <= EMAIL_BATCH_SIZE
        /\ emails_sent_in_session >= EMAIL_BATCH_SIZE =>
              pc \notin {"classify", "draft", "save", "gate", "send"}

\* C4: with auto-send enabled the automated driver's send decision is the
\* truth table (Hot: Hot; Warm: Hot, Warm; Cold: Hot, Warm, Cold); with
\* auto-send disabled it is false.
SendTable == { <<"Hot", "Hot">>, <<"Warm", "Hot">>, <<"Warm", "Warm">>,
               <<"Cold", "Hot">>, <<"Cold", "Warm">>, <<"Cold", "Cold">> }

C4_GateTruthTable ==
    (driver = "auto" /\ pc \in {"send", "write", "ceiling"}
        /\ classification["category"] \in Categories) =>
        (send_email_flag <=>
            (AUTO_SEND_EMAILS /\ <<AUTO_APPROVE_THRESHOLD, classification["category"]>> \in SendTable))

C4_Witness ==
    /\ driver = "auto"
    /\ pc = "write"
    /\ AUTO_SEND_EMAILS
    /\ AUTO_APPROVE_THRESHOLD = "Warm"
    /\ classification["category"] = "Cold"
    /\ ~ send_email_flag

\* the records classify_lead is specified to return
ClassificationKeys == {"category", "intent", "urgency", "concerns", "next_action", "reasoning"}
ValidClassification(c) == ClassificationKeys \subseteq DOMAIN c /\ c["category"] \in Categories

IsFailure(o) == o.kind # "content"
\* the attempt that ends call_llm: the first one with content, else the last
FirstContent(stub) ==
    IF \E i \in 1..max_retries : ~ IsFailure(stub[i])
    THEN CHOOSE i \in 1..max_retries :
            ~ IsFailure(stub[i]) /\ \A j \in 1..(i - 1) : IsFailure(stub[j])
    ELSE 0

\* C5: classify_lead always returns a record with all six fields and a
\* category among Hot, Warm, Cold, whatever the model answers; when the call or
\* the parse fails the record is the fixed fallback.
C5_AlwaysValid ==
    fnPc = "done" =>
        /\ ValidClassification(fnOut.classification)
        /\ (FirstContent(fnIn) = 0 \/ ~ Parseable(fnIn[FirstContent(fnIn)].text)) =>
              fnOut.classification = FallbackClassification

\* C6: classify_lead makes at most 3 call attempts and stops at the first
\* successful call; two failures then a parseable response give that parsed
\* result after exactly 3 attempts; three failures give the fallback after
\* exactly 3 attempts.
C6_RetryBound ==
    fnPc = "done" =>
        /\ fnOut.attempts <= max_retries
        /\ fnOut.attempts >= 1
        /\ FirstContent(fnIn) # 0 => fnOut.attempts = FirstContent(fnIn)
        /\ (FirstContent(fnIn) = max_retries /\ Parseable(fnIn[max_retries].text)) =>
              /\ fnOut.classification = parse_json_response(fnIn[max_retries].text).val
              /\ fnOut.attempts = max_retries
        /\ FirstContent(fnIn) = 0 =>
              /\ fnOut.classification = FallbackClassification
              /\ fnOut.attempts = max_retries

C6_Witness ==
    /\ fnPc = "done"
    /\ FirstContent(fnIn) = max_retries
    /\ Parseable(fnIn[max_retries].text)
    /\ fnOut.classification["category"] = "Cold"

\* C7 as stated: a response that cannot be parsed counts as a failed attempt
\* and is retried, so the fallback is returned only after the third attempt.
C7_ParseFailureRetried ==
    (fnPc = "done" /\ fnOut.classification = FallbackClassification) =>
        fnOut.attempts = max_retries

\* C7 as amended: a response that cannot be parsed is not retried: the call
\* that produced it was the last attempt and the fallback is returned at once;
\* only failed calls (an error, an empty response) are retried, up to 3 in all.
C7_ParseFailureNotRetried ==
    fnPc = "done" =>
        /\ fnOut.attempts <= max_retries
        /\ (FirstContent(fnIn) # 0 /\ ~ Parseable(fnIn[FirstContent(fnIn)].text)) =>
              /\ fnOut.classification = FallbackClassification
              /\ fnOut.attempts = FirstContent(fnIn)

C7_Witness ==
    /\ fnPc = "done"
    /\ FirstContent(fnIn) = 1
    /\ fnIn[1].text = <<LB, TXT, RB>>
    /\ ~ IsFailure(fnIn[2]) /\ Parseable(fnIn[2].text)
    /\ fnOut.attempts = 1
    /\ fnOut.classification = FallbackClassification

\* C8 as stated: after N >= 1 update_lead_state calls for a lead_id there is
\* exactly one row for it, its follow_up_count is N and its status and
\* next_action are those of the latest call.
C8_CountIsCalls ==
    \A l \in Leads :
        upCalls[l] >= 1 =>
            /\ Cardinality(RowsOf(table, l)) = 1
            /\ RowOf(l).follow_up_count = upCalls[l]
            /\ RowOf(l).status = upLast[l].status
            /\ RowOf(l).next_action = upLast[l].next_action

\* C8 as amended: there is exactly one row, with the status and next_action of
\* the latest call, and follow_up_count = k + N: k the count the id had in the
\* table the calls started from (0 without a row), N the completed calls since;
\* a call whose load_state cannot read the file starts again from an empty
\* table (k = 0 for every id, N = 1 for the id of that call).
C8_UpsertShape ==
    /\ \A l \in Leads : Cardinality(RowsOf(table, l)) <= 1
    /\ \A l \in Leads :
        upSince[l] >= 1 =>
            /\ Cardinality(RowsOf(table, l)) = 1
            /\ RowOf(l).follow_up_count = upBase[l] + upSince[l]
            /\ RowOf(l).status = upLast[l].status
            /\ RowOf(l).next_action = upLast[l].next_action

C8_Witness ==
    \E l, m \in Leads :
        /\ l # m
        /\ upBase[l] = 2
        /\ upSince[l] = 2
        /\ upSince[m] = 1
        /\ Cardinality(RowsOf(table, l)) = 1
        /\ RowOf(l).follow_up_count = 4

\* C9: in both drivers a lead gets at most one send attempt per run; when it
\* fails, the counters are not incremented, the draft file is kept, the status
\* to record is approved, the row written for the lead (if the write does not
\* raise) has status approved, and the loop goes on to the next lead.
C9_SendFailure ==
    [][ /\ Len(sends') <= 1
        /\ (pc = "send" /\ sends' = <<FALSE>>) =>
              /\ pc' = "write"
              /\ status' = "approved"
              /\ emails_sent_in_session' = emails_sent_in_session
              /\ procSends' = procSends
              /\ cur \in drafts'
              /\ idx' = idx
        /\ (pc = "write" /\ sends = <<FALSE>>) =>
              /\ idx' = idx + 1
              /\ pc' = IF idx + 1 > Len(new_leads) THEN EndPc ELSE "classify"
              /\ cur \in drafts'
              /\ table' # table =>
                    /\ RowsOf(table', cur) # {}
                    /\ \A i \in RowsOf(table', cur) : table'[i].status = "approved"
      ]_vars

C9_Witness ==
    /\ driver = "auto"
    /\ pc = "write"
    /\ sends = <<FALSE>>
    /\ status = "approved"
    /\ idx < Len(new_leads)

\* C10: an error raised while one lead is processed is caught by the batch
\* loop: the state table is left as it was, the driver goes on to the next lead
\* (or returns after the last one), the failed lead has no row for the rest of
\* the run, and a lead without a row is in new_leads of the next run.
C10_FailureIsolation ==
    [][ /\ (pc \in LeadSteps /\ outcome[cur] # "Errored" /\ outcome'[cur] = "Errored") =>
              /\ table' = table
              /\ idx' = idx + 1
              /\ pc' = IF idx + 1 > Len(new_leads) THEN EndPc ELSE "classify"
        /\ runLoadOk' =>
              \A l \in Leads : outcome'[l] = "Errored" => l \notin Ids(table')
        /\ pc = "run_start" =>
              \A l \in Leads \ Ids(table) : l \in Range(new_leads')
      ]_vars

C10_Witness ==
    /\ runLoadOk
    /\ pc = "classify"
    /\ \E l \in Leads : outcome[l] = "Errored" /\ l # cur /\ l \notin Ids(table)

\* a step that ends the processing of the current lead
EndsLead == pc \in LeadSteps /\ (idx' = idx + 1 \/ (pc = "ceiling" /\ pc' = "stopped"))
TerminalStates == {"Sent", "Saved", "Rejected", "Skipped", "Errored"}
SentRows(state) == { state[i].lead_id : i \in { j \in DOMAIN state : state[j].status = "approved_sent" } }

\* C11: a lead that finishes processing ends in one of Sent, Saved, Rejected,
\* Skipped, Errored; Sent writes a row approved_sent, Saved a row approved,
\* Rejected (interactive only) a row rejected with next_action no_action,
\* Skipped and Errored write nothing; a row becomes approved_sent only in the
\* state write of a lead whose send returned success, and every row's status
\* is one of approved, approved_sent, rejected.
C11_TerminalStatus ==
    [][ /\ \A i \in DOMAIN table' : table'[i].status \in Statuses
        /\ EndsLead =>
              /\ outcome'[cur] \in TerminalStates
              /\ outcome'[cur] = "Sent" =>
                    /\ sends = <<TRUE>>
                    /\ \E i \in RowsOf(table', cur) : table'[i].status = "approved_sent"
              /\ outcome'[cur] = "Saved" =>
                    \E i \in RowsOf(table', cur) : table'[i].status = "approved"
              /\ outcome'[cur] = "Rejected" =>
                    /\ driver = "interactive"
                    /\ \E i \in RowsOf(table', cur) :
                          table'[i].status = "rejected" /\ table'[i].next_action = "no_action"
              /\ outcome'[cur] \in {"Skipped", "Errored"} => table' = table
        /\ (pc \in LeadSteps /\ ~ EndsLead) => (table' = table /\ outcome' = outcome)
        /\ \A l \in SentRows(table') \ SentRows(table) :
              pc \in {"write", "ceiling"} /\ l = cur /\ sends = <<TRUE>>
      ]_vars

C11_Witness ==
    /\ driver = "interactive"
    /\ pc = "stopped"
    /\ outcome[1] = "Rejected"
    /\ outcome[2] = "Sent"
    /\ SentRows(table) = {2}
    /\ \E i \in RowsOf(table, 1) : table[i].status = "rejected"

\* C12: when every call attempt of generate_followup fails, the draft is the
\* sentinel and nothing is raised: the lead goes on to the save (or review)
\* step, the sentinel is what save_draft writes, and in the automated driver a
\* lead gated to send has the sentinel sent as the body with the default
\* subject and, when the send succeeds, is written as approved_sent.
C12_SentinelDraft ==
    [][ /\ (pc = "draft" /\ PromptKeys \subseteq DOMAIN classification) =>
              /\ pc' = IF driver = "auto" THEN "save" ELSE "review"
              /\ idx' = idx
              /\ outcome' = outcome
        /\ (pc = "draft" /\ draftCallFailed') =>
              /\ draft' = Sentinel
              /\ pc' = IF driver = "auto" THEN "save" ELSE "review"
              /\ idx' = idx
        /\ (driver = "auto" /\ draftCallFailed /\ pc = "save" /\ pc' = "gate") =>
              /\ saved' = Sentinel
              /\ cur \in drafts'
        /\ (driver = "auto" /\ draftCallFailed /\ pc = "send") =>
              /\ mailed'.subject = DefaultSubject
              /\ mailed'.body = Sentinel
        /\ (driver = "auto" /\ draftCallFailed /\ pc \in {"write", "ceiling"}
               /\ sends = <<TRUE>> /\ table' # table) =>
              \E i \in RowsOf(table', cur) : table'[i].status = "approved_sent"
      ]_vars

C12_Witness ==
    /\ driver = "auto"
    /\ draftCallFailed
    /\ pc = "ceiling"
    /\ saved = Sentinel
    /\ mailed = [subject |-> DefaultSubject, body |-> Sentinel]
    /\ sends = <<TRUE>>

\* the lines of text at the positions in keep, in order
RECURSIVE Keep(_, _, _)
Keep(text, keep, i) ==
    IF i > Len(text) THEN <<>>
    ELSE (IF i \in keep THEN <<text[i]>> ELSE <<>>) \o Keep(text, keep, i + 1)

SubjectLines(text) == { i \in 1..Len(text) : startswith_subject(text[i]) }

\* C13: for a draft without leading or trailing whitespace, with one line
\* starting with "Subject:", the subject is the trimmed text after "Subject:"
\* of that line and the body is the other lines joined in order and trimmed;
\* with no such line the subject is the default and the body is the input.
C13_Parser ==
    (fnPc = "parsed" /\ str_strip(fnIn) = fnIn) =>
        LET S == SubjectLines(fnIn)
            i == CHOOSE j \in S : TRUE
        IN  /\ S = {} => (fnOut.subject = DefaultSubject /\ fnOut.body = fnIn)
            /\ Cardinality(S) = 1 =>
                  /\ fnOut.subject = StripLine(Tail(fnIn[i]))
                  /\ fnOut.body = str_strip(Keep(fnIn, (1..Len(fnIn)) \ S, 1))
            /\ fnIn = ModelDraft =>
                  /\ fnOut.subject = <<"Hello">>
                  /\ fnOut.body = << <<"Dear X,">>, <<"Body text">> >>

\* C14: a process that stops after a run (normal completion, or the batch
\* ceiling in the automated driver) exits with status 0; the interactive driver
\* started without the API key or without the leads file exits with status 1;
\* in both drivers a process started without the API key ends before any lead
\* is processed: no pipeline step, no send, no draft file, no state write.
C14_ExitCodes ==
    [][ /\ (pc # "stopped" /\ pc' = "stopped") => exit_code' = <<0>>
        /\ (pc = "ceiling" /\ pc' = "stopped") => (driver = "auto" /\ exit_code' = <<0>>)
        /\ (pc = "stopped" /\ driver' = "interactive" /\ setup' # SetupOk) => exit_code' = <<1>>
        /\ (pc = "stopped" /\ ~ setup'.api_key) =>
              /\ exit_code' = <<1>>
              /\ pc' = "stopped"
              /\ UNCHANGED <<table, drafts, clock, touched, outcome, leadVars>>
              /\ procSends' = 0
        /\ (pc' # "stopped") => (setup' = SetupOk /\ exit_code' = <<>>)
      ]_vars

C14_Witness ==
    /\ pc = "stopped"
    /\ driver = "interactive"
    /\ setup = Setup(TRUE, FALSE)
    /\ exit_code = <<1>>
    /\ table # <<>>

Persisted == {"Sent", "Saved", "Rejected"}

\* C15: when a step of the k-th lead of a run begins, the state table holds a
\* row for every earlier lead of the run that ended Sent, Saved or Rejected,
\* and no step removes a row written earlier in this or a previous run.
C15_PersistedAfterEveryLead ==
    [][ /\ Ids(table) \subseteq Ids(table')
        /\ pc' \in LeadSteps =>
              \A j \in 1..(idx' - 1) :
                  outcome'[new_leads'[j]] \in Persisted => new_leads'[j] \in Ids(table')
      ]_vars

\* the position of a pipeline step within one loop iteration
StepOrder ==
    [classify |-> 1, draft |-> 2, review |-> 3, save |-> 4, gate |-> 5, send |-> 6,
     write |-> 7, ceiling |-> 7]
PosInFile(l) == CHOOSE i \in 1..Len(LEADS_FILE) : LEADS_FILE[i] = l

\* C16: within a run the leads are taken one at a time in input order; the
\* steps of a lead go forward in the order classify, draft, decision, send
\* attempt, state write; the next lead starts only when the current one has
\* reached a terminal state; and the table is written only in the state write
\* step, after the send attempt (if the decision was to send) has returned.
C16_SequentialOrder ==
    [][ /\ \A i, j \in 1..Len(new_leads') :
              i < j => PosInFile(new_leads'[i]) < PosInFile(new_leads'[j])
        /\ (pc \in LeadSteps /\ pc' \in LeadSteps /\ idx' = idx) =>
              \/ StepOrder[pc'] > StepOrder[pc]
              \/ (pc = "review" /\ pc' = "review")
        /\ (pc \in LeadSteps /\ idx' # idx) =>
              /\ idx' = idx + 1
              /\ outcome'[cur] \in TerminalStates
              /\ pc' \in {"classify", EndPc}
        /\ pc' = "classify" =>
              \/ (pc = "run_start" /\ idx' = 1)
              \/ (pc \in LeadSteps /\ idx' = idx + 1)
        /\ table' # table =>
              /\ pc \in {"write", "ceiling"}
              /\ Ids(table') \ Ids(table) \subseteq {cur}
              /\ send_email_flag => Len(sends) = 1
      ]_vars

C16_Witness ==
    /\ driver = "auto"
    /\ idx = 2
    /\ new_leads = <<1, 2>>
    /\ outcome[1] = "Saved"
    /\ pc = "ceiling"
    /\ send_email_flag
    /\ sends = <<TRUE>>
    /\ Ids(table) = {1}

\* C17: in the interactive driver a send is attempted exactly for the leads the
\* operator answered S, or E then Y (provided the draft save did not raise),
\* whatever the category; an invalid answer changes nothing but the prompt
\* being repeated; Skip leaves the table and the draft files unchanged and the
\* lead is in new_leads of the next run; Reject saves no draft and sends
\* nothing.
C17_InteractiveDecisions ==
    [][ driver = "interactive" =>
          /\ pc' = "send" => choice' \in {"S", "EY"}
          /\ (pc = "save" /\ outcome'[cur] # "Errored") =>
                /\ choice \in {"S", "EY"} => pc' = "send"
                /\ choice \in {"A", "EN"} => (pc' = "write" /\ status' = "approved")
          /\ pc = "send" => Len(sends') = 1
          /\ (pc = "review" /\ pc' = "review") =>
                UNCHANGED <<table, drafts, clock, classification, draft, saved, send_email_flag,
                            status, sends, mailed, choice, idx, outcome, procSends>>
          /\ (pc = "review" /\ outcome'[cur] = "Skipped") =>
                /\ UNCHANGED <<table, drafts, clock, procSends>>
                /\ idx' = idx + 1
          /\ (pc = "run_start" /\ pc' # "run_start") =>
                \A l \in Leads \ Ids(table) : l \in Range(new_leads')
          /\ (pc = "review" /\ choice' = "R") => (pc' = "write" /\ status' = "rejected")
          /\ (pc = "write" /\ choice = "R") =>
                /\ sends = <<>> /\ saved = <<>> /\ mailed = NoMail
                /\ drafts' = drafts
                /\ procSends' = procSends
      ]_vars

C17_Witness ==
    /\ driver = "interactive"
    /\ pc = "write"
    /\ choice = "EY"
    /\ classification["category"] = "Cold"
    /\ sends = <<TRUE>>
    /\ mailed.body = EditedDraft
    /\ outcome[1] = "Skipped"
    /\ 1 \notin Ids(table)
    /\ idx = 2

\* C18: in the automated driver the draft file of a lead is written before the
\* send decision is taken, whatever the threshold, category and auto-send
\* setting; with auto-send disabled no send is attempted, the send counter
\* stays 0, and every row the process writes has status approved.
C18_DraftsBeforeGate ==
    [][ (driver' = "auto" /\ pc' # "stopped") =>
          /\ pc' \in {"gate", "send", "write", "ceiling"} =>
                (new_leads'[idx'] \in drafts' /\ saved' = draft')
          /\ ~ AUTO_SEND_EMAILS' =>
                /\ pc' \notin {"send", "ceiling"}
                /\ ~ send_email_flag'
                /\ sends' = <<>>
                /\ emails_sent_in_session' = 0
                /\ procSends' = 0
                /\ pc' = "write" => status' = "approved"
                /\ pc # "stopped" =>
                      \A l \in Leads : outcome'[l] \in {"none", "Saved", "Errored"}
                /\ (pc = "write" /\ table' # table) =>
                      \E i \in RowsOf(table', cur) : table'[i].status = "approved"
      ]_vars

C18_Witness ==
    /\ driver = "auto"
    /\ ~ AUTO_SEND_EMAILS
    /\ AUTO_APPROVE_THRESHOLD = "Cold"
    /\ pc = "write"
    /\ idx = 2
    /\ classification["category"] = "Hot"
    /\ cur \in drafts
    /\ status = "approved"
    /\ outcome[1] = "Saved"
    /\ \E i \in RowsOf(table, 1) : table[i].status = "approved"

\* C19: in a scheduled process a run starts only when no run is in progress,
\* so at most one run of auto_process_leads is active at any time, and each
\* run computes its new leads from the state table as the previous run left
\* it.
C19_NoOverlap ==
    [][ /\ active_runs' \in {0, 1}
        /\ (active_runs' = 1) <=> (pc' \in LeadSteps)
        /\ active_runs' > active_runs =>
              /\ pc = "run_start"
              /\ active_runs = 0
        /\ (pc = "run_start" /\ pc' # "stopped" /\ mode = "scheduled") =>
              /\ startIds' = Ids(table)
              /\ runLoadOk' => Range(new_leads') = Leads \ Ids(table)
              /\ table' = table
      ]_vars

C19_Witness ==
    /\ driver = "auto"
    /\ mode = "scheduled"
    /\ runs_started = 2
    /\ active_runs = 1
    /\ runLoadOk
    /\ pc = "classify"
    /\ new_leads = <<2>>
    /\ startIds = {1}

RowsFor(state, m) == { state[i] : i \in RowsOf(state, m) }

\* C20: update_lead_state rewrites the whole file from the table the call read
\* earlier, with no lock: the write of a process leaves, for every other lead,
\* exactly the rows of its own earlier read, whatever the other process wrote
\* since; and a process never looks at the file again to decide which leads
\* to process. So a completed row of the other process for a different lead
\* can be lost, and both processes can classify, draft and send for one lead.
C20_UnlockedRewrite ==
    [][ \A p \in Workers :
          /\ (workers[p].pc = "store" /\ workers'[p].pc # "store") =>
                \A m \in Leads \ {CurLead(workers[p])} :
                    RowsFor(table', m) = RowsFor(workers[p].state, m)
          /\ workers[p].pc # "start" =>
                workers'[p].new_leads = workers[p].new_leads
          /\ workers[p].pc \in {"classify", "draft", "send"} =>
                ENABLED (\/ \E category \in Categories : ConClassify(p, category)
                         \/ ConDraft(p)
                         \/ \E email_sent \in BOOLEAN : ConSend(p, email_sent))
      ]_vars

C20_Witness ==
    /\ lostRows # {}
    /\ \E l \in Leads :
          \A p \in Workers :
              l \in workers[p].classified \cap workers[p].drafted \cap workers[p].sentTo
    /\ \A p \in Workers : workers[p].pc = "done"

\* the waits of a call whose first `failed` attempts failed and that went on
\* to another attempt after each of them: 2^0, 2^1, ...
Backoff(failed) == [i \in 1..failed |-> 2 ^ (i - 1)]

\* C21: the wrapper waits 1 s after the first failed attempt and 2 s after the
\* second; it does not wait after the third (final) failed attempt nor after a
\* successful attempt.
C21_BackoffSchedule ==
    fnPc = "done" =>
        /\ FirstContent(fnIn) \in 1..max_retries =>
              fnOut.sleeps = Backoff(FirstContent(fnIn) - 1)
        /\ FirstContent(fnIn) \notin 1..max_retries =>
              /\ fnOut.sleeps = <<1, 2>>
              /\ fnOut.attempts = max_retries
        /\ Len(fnOut.sleeps) = fnOut.attempts - 1
        /\ \A i \in DOMAIN fnOut.sleeps : fnOut.sleeps[i] = 2 ^ (i - 1)

C21_Witness ==
    /\ fnPc = "done"
    /\ FirstContent(fnIn) = 0
    /\ fnOut.attempts = max_retries
    /\ fnOut.sleeps = <<1, 2>>

\* C22: with one process owning the state table at a time, over any sequence
\* of runs, including runs in which the process is killed at an arbitrary
\* step, no lead receives more than one successfully sent email.
C22_AtMostOnce ==
    \A l \in Leads : Cardinality({ p \in Workers : l \in workers[p].sentTo }) <= 1

\* C23: started on an empty table, in every state reached by any sequence of
\* runs of either driver the table has at most one row per lead_id, every row
\* has follow_up_count = 1, and the status and next_action of a row never
\* change once it exists.
C23_WriteOnceRows ==
    [][ /\ \A l \in Leads : Cardinality(RowsOf(table', l)) <= 1
        /\ \A i \in DOMAIN table' : table'[i].follow_up_count = 1
        /\ \A i \in DOMAIN table, j \in DOMAIN table' :
              table[i].lead_id = table'[j].lead_id =>
                  /\ table'[j].status = table[i].status
                  /\ table'[j].next_action = table[i].next_action
      ]_vars

\* C24: update_lead_state(L, status, next_action) leaves the row of every
\* other lead_id unchanged, so the set of lead_ids in the table never shrinks
\* under any sequence of calls, also when loading the existing table fails.
C24_UpsertFrame ==
    [][ /\ \A m \in Leads :
              upCalls'[m] = upCalls[m] => RowsFor(table', m) = RowsFor(table, m)
        /\ Ids(table) \subseteq Ids(table')
      ]_vars

\* C25: one run of auto_process_leads terminates, by returning or by the exit
\* at the batch limit, whatever the model and the email transport do; no
\* model call of the run makes more than max_retries attempts, each new lead
\* is taken once, with at most one send attempt and at most one state write.
C25_RunTerminates ==
    /\ (driver = "auto" /\ active_runs = 1) ~> (active_runs = 0)
    /\ [][ driver = "auto" =>
             /\ pc \in LeadSteps => <<pc', idx'>> # <<pc, idx>>
             /\ ~ over_retried'
             /\ \A i, j \in DOMAIN new_leads' : new_leads'[i] = new_leads'[j] => i = j
             /\ (pc \in LeadSteps /\ pc' \in LeadSteps) => idx' \in {idx, idx + 1}
             /\ Len(sends') <= 1
             /\ clock' # clock =>
                   /\ pc \in {"write", "ceiling"}
                   /\ clock' = clock + 1
                   /\ pc' \notin LeadSteps \/ idx' = idx + 1
         ]_vars

C25_Witness ==
    /\ driver = "auto"
    /\ mode = "manual"
    /\ pc = "stopped"
    /\ active_runs = 0
    /\ runs_started = 1
    /\ exit_code = <<0>>
    /\ Len(new_leads) = NumLeads
    /\ \A l \in Leads : outcome[l] # "none"
    /\ ~ over_retried

====
